---- MODULE Spec2Model ----
(***************************************************************************)
(* Model of src/src/python/spotify_analyzer.py: the batch pipeline         *)
(*   load_spotify_data -> get_comprehensive_stats ->                       *)
(*   analyze_listening_trends -> print(json.dumps(results)).               *)
(*                                                                         *)
(* Time is counted in whole minutes since 2024-01-31T00:00Z (a Wednesday). *)
(* Names (track, artist, album) are positive integers, Null is JSON null.  *)
(* Real numbers are exact fractions <<n, d>> in lowest terms, NaN is       *)
(* <<0, 0>>.  platform_stats is a value_counts over a column that nothing  *)
(* else reads and is left out.                                             *)
(***************************************************************************)
EXTENDS Integers, Sequences, FiniteSets

VARIABLES
    pc,        \* position of __main__: "start","loaded","stats","trends","printed","failed"
    raw,       \* the parsed JSON document: a sequence of records
    df,        \* the DataFrame returned by load_spotify_data
    df_sorted, \* the local df_sorted of get_comprehensive_stats, with session_id
    stats,     \* the dict returned by get_comprehensive_stats
    trends,    \* the dict returned by analyze_listening_trends
    stdout,    \* what has been printed
    err        \* the exception that ended the run, if any

vars == <<pc, raw, df, df_sorted, stats, trends, stdout, err>>

----------------------------------------------------------------------------
(* Program constants *)

SessionThresholdMinutes == 30
TopN == 10
RollingWindow == 7
MsPerMinute == 60000
MsPerHour == 3600000

(* Model bounds *)
MaxLen == 3       \* longest input of the general input family
MaxDistinct == 11 \* most distinct names in the ranking input family
MaxTail == 2      \* free records after the distinct prefix (ranking family)
MaxDays == 10     \* most daily buckets in the trend input family

(* Special values *)
Null == -3        \* JSON null / NaN in a name column
NaT == -1         \* pandas NaT: the datetime of a null "ts"
BadTs == -2       \* a "ts" string that pd.to_datetime cannot parse
NaN == <<0, 0>>
None == [none |-> TRUE]

----------------------------------------------------------------------------
(* Exact arithmetic *)

Abs(x) == IF x < 0 THEN -x ELSE x

RECURSIVE GCD(_, _)
GCD(a, b) == IF b = 0 THEN a ELSE GCD(b, a % b)

\* n/d in lowest terms; division by zero gives NaN (numpy float division)
Rat(n, d) ==
    IF d = 0 THEN NaN
    ELSE LET g == GCD(Abs(n), Abs(d))
             s == IF d < 0 THEN -1 ELSE 1
         IN  <<s * (n \div g), s * (d \div g)>>

IsNaN(r) == r[2] = 0

RAdd(a, b) == IF IsNaN(a) \/ IsNaN(b) THEN NaN
              ELSE Rat(a[1] * b[2] + b[1] * a[2], a[2] * b[2])
RSub(a, b) == IF IsNaN(a) \/ IsNaN(b) THEN NaN
              ELSE Rat(a[1] * b[2] - b[1] * a[2], a[2] * b[2])
RDivInt(a, k) == IF IsNaN(a) THEN NaN ELSE Rat(a[1], a[2] * k)

\* round(x, 2): nearest hundredth, ties to the even hundredth
Round2(r) ==
    IF IsNaN(r) THEN NaN
    ELSE LET num == r[1] * 100
             q == num \div r[2]
             rem2 == 2 * (num % r[2])
             h == IF rem2 > r[2] THEN q + 1
                  ELSE IF rem2 < r[2] THEN q
                  ELSE IF q % 2 = 0 THEN q ELSE q + 1
         IN  Rat(h, 100)

RECURSIVE SumSeq(_)
SumSeq(s) == IF s = <<>> THEN 0 ELSE Head(s) + SumSeq(Tail(s))

RECURSIVE RSumSeq(_)
RSumSeq(s) == IF s = <<>> THEN <<0, 1>> ELSE RAdd(Head(s), RSumSeq(Tail(s)))

\* Series.mean(): NaN on an empty series
MeanInt(s) == Rat(SumSeq(s), Len(s))

Range(s) == {s[i] : i \in 1..Len(s)}

RECURSIVE SelectIdx(_, _, _)
\* the subsequence of s at the positions i (in order) with keep[i]
SelectIdx(s, keep, i) ==
    IF i > Len(s) THEN <<>>
    ELSE IF keep[i] THEN <<s[i]>> \o SelectIdx(s, keep, i + 1)
    ELSE SelectIdx(s, keep, i + 1)

Column(frame, col) == [i \in 1..Len(frame) |-> frame[i][col]]

----------------------------------------------------------------------------
(* Calendar: Series.dt.hour, .dt.day_name(), .dt.month, .dt.date *)

MinutesPerDay == 1440
MonthLengths == <<31, 29, 31, 30, 31, 30, 31, 31, 30, 31, 30, 31>>  \* 2024
DayNames == <<"Monday", "Tuesday", "Wednesday", "Thursday", "Friday",
              "Saturday", "Sunday">>

\* day of the year 2024 (1-based) of a timestamp; minute 0 is January 31
DayOfYear(ts) == 31 + (ts \div MinutesPerDay)

RECURSIVE MonthFrom(_, _)
\* the month holding day-of-year doy, searching from month m
MonthFrom(doy, m) ==
    IF m >= 12 \/ doy <= MonthLengths[m] THEN <<m, doy>>
    ELSE MonthFrom(doy - MonthLengths[m], m + 1)

hour(ts) == IF ts = NaT THEN NaT ELSE (ts % MinutesPerDay) \div 60
month(ts) == IF ts = NaT THEN NaT ELSE MonthFrom(DayOfYear(ts), 1)[1]
day_name(ts) ==
    IF ts = NaT THEN "NaN"
    ELSE DayNames[((2 + (ts \div MinutesPerDay)) % 7) + 1]
\* .dt.date: <<year, month, day>>, NaT for a missing timestamp
date(ts) ==
    IF ts = NaT THEN <<NaT, NaT, NaT>>
    ELSE LET md == MonthFrom(DayOfYear(ts), 1) IN <<2024, md[1], md[2]>>

\* order of datetime.date values (and of their ISO strings)
DateLess(a, b) ==
    \/ a[1] < b[1]
    \/ a[1] = b[1] /\ a[2] < b[2]
    \/ a[1] = b[1] /\ a[2] = b[2] /\ a[3] < b[3]

----------------------------------------------------------------------------
(* Sorting.  sort_values and value_counts sort with kind="quicksort",     *)
(* which is not stable: among equal keys any order may come out.  The     *)
(* model explores the stable order and every order that differs from it   *)
(* by one exchange of two entries with equal keys.  Items are             *)
(* <<key, payload>> and are sorted by ascending integer key.              *)

RECURSIVE InsertAfterEqual(_, _)
InsertAfterEqual(sorted, item) ==
    IF sorted = <<>> THEN <<item>>
    ELSE IF item[1] < Head(sorted)[1] THEN <<item>> \o sorted
    ELSE <<Head(sorted)>> \o InsertAfterEqual(Tail(sorted), item)

RECURSIVE StableSortFrom(_, _, _)
StableSortFrom(items, i, acc) ==
    IF i > Len(items) THEN acc
    ELSE StableSortFrom(items, i + 1, InsertAfterEqual(acc, items[i]))

StableSort(items) == StableSortFrom(items, 1, <<>>)

Swap(s, i, j) ==
    [k \in 1..Len(s) |-> IF k = i THEN s[j] ELSE IF k = j THEN s[i] ELSE s[k]]

\* the orders an unstable sort of items may return
SortOutcomes(items) ==
    LET st == StableSort(items)
    IN  {st} \cup {Swap(st, i, j) : <<i, j>> \in
            {p \in (1..Len(st)) \X (1..Len(st)) :
                p[1] < p[2] /\ st[p[1]][1] = st[p[2]][1]}}

Payloads(items) == [i \in 1..Len(items) |-> items[i][2]]

----------------------------------------------------------------------------
(* Series.value_counts(), nunique(), head() *)

Count(col, x) == Cardinality({i \in 1..Len(col) : col[i] = x})

RECURSIVE FirstSeenFrom(_, _, _, _)
\* the distinct values of col other than na, in order of first occurrence
FirstSeenFrom(col, na, i, acc) ==
    IF i > Len(col) THEN acc
    ELSE IF col[i] = na \/ col[i] \in Range(acc)
         THEN FirstSeenFrom(col, na, i + 1, acc)
         ELSE FirstSeenFrom(col, na, i + 1, Append(acc, col[i]))

FirstSeen(col, na) == FirstSeenFrom(col, na, 1, <<>>)

nunique(col, na) == Len(FirstSeen(col, na))

\* value_counts(sort=True): <<value, count>> by descending count; the set
\* of orders the sort may return
ValueCountsOutcomes(col, na) ==
    LET keys == FirstSeen(col, na)
        items == [i \in 1..Len(keys) |->
                    <<0 - Count(col, keys[i]), <<keys[i], Count(col, keys[i])>>>>]
    IN  {Payloads(o) : o \in SortOutcomes(items)}

\* value_counts() read back as a dict (to_dict): value -> count
ValueCountsDict(col, na) ==
    [x \in Range(col) \ {na} |-> Count(col, x)]

head(s, n) == SubSeq(s, 1, IF Len(s) < n THEN Len(s) ELSE n)

DictSum(d) ==
    LET RECURSIVE S(_)
        S(keys) == IF keys = {} THEN 0
                   ELSE LET k == CHOOSE k \in keys : TRUE
                        IN  d[k] + S(keys \ {k})
    IN  S(DOMAIN d)

----------------------------------------------------------------------------
(* load_spotify_data *)

\* pd.to_datetime on one value: null becomes NaT, a parsable string its instant
to_datetime(v) == IF v = Null THEN NaT ELSE v

BadPositions(data) == {i \in 1..Len(data) : data[i].ts = BadTs}

Min(S) == CHOOSE x \in S : \A y \in S : x <= y

NoError == [type |-> "none", position |-> -1]

\* pd.to_datetime(..., errors='coerce'): an unparsable value becomes NaT
LoadCoerce ==
    /\ pc = "start"
    /\ raw # <<>>
    /\ pc' = "loaded"
    /\ df' = [i \in 1..Len(raw) |->
                [raw[i] EXCEPT !.ts = IF raw[i].ts \in {Null, BadTs} THEN NaT
                                      ELSE raw[i].ts]]
    /\ UNCHANGED <<raw, df_sorted, stats, trends, stdout, err>>

\* json.load, pd.DataFrame(data), df['ts'] = pd.to_datetime(df['ts'])
Load ==
    /\ pc = "start"
    /\ IF raw = <<>>
       THEN \* pd.DataFrame([]) has no columns: df['ts'] raises KeyError
            /\ pc' = "failed"
            /\ err' = [type |-> "KeyError", position |-> -1]
            /\ df' = df
       ELSE IF BadPositions(raw) # {}
       THEN \* to_datetime raises at the first value it cannot parse and
            \* names its 0-based position in the message
            /\ pc' = "failed"
            /\ err' = [type |-> "ValueError", position |-> Min(BadPositions(raw)) - 1]
            /\ df' = df
       ELSE /\ pc' = "loaded"
            /\ err' = err
            /\ df' = [i \in 1..Len(raw) |->
                        [raw[i] EXCEPT !.ts = to_datetime(raw[i].ts)]]
    /\ UNCHANGED <<raw, df_sorted, stats, trends, stdout>>

----------------------------------------------------------------------------
(* get_comprehensive_stats *)

\* the rows left in file order
SortValuesTsInputOrder(frame) == {[i \in 1..Len(frame) |-> i]}

\* nargsort with na_position="last": the rows with a timestamp, sorted by
\* it, then the NaT rows in their original order.  The set of row orders
\* (as index sequences) df.sort_values('ts') may return.
SortValuesTs(frame) ==
    LET n == Len(frame)
        valid == SelectIdx([i \in 1..n |-> i], [i \in 1..n |-> frame[i].ts # NaT], 1)
        nat == SelectIdx([i \in 1..n |-> i], [i \in 1..n |-> frame[i].ts = NaT], 1)
        items == [k \in 1..Len(valid) |-> <<frame[valid[k]].ts, valid[k]>>]
    IN  {Payloads(o) \o nat : o \in SortOutcomes(items)}

\* time_diff = ts.diff(): NaT on the first row and next to a NaT
TimeDiff(prev_ts, ts) ==
    IF prev_ts = NaT \/ ts = NaT THEN NaT ELSE ts - prev_ts

\* a session also starting at a gap of exactly the threshold
NewSessionAtLeast(time_diff) ==
    time_diff # NaT /\ time_diff >= SessionThresholdMinutes

\* new_session = time_diff > Timedelta(minutes=30); NaT compares False
NewSession(time_diff) ==
    time_diff # NaT /\ time_diff > SessionThresholdMinutes

RECURSIVE SessionFrameFrom(_, _, _)
\* df_sorted row by row: session_id = new_session.cumsum()
SessionFrameFrom(frame, order, acc) ==
    IF Len(acc) = Len(order) THEN acc
    ELSE LET k == Len(acc) + 1
             row == frame[order[k]]
             diff == IF k = 1 THEN NaT ELSE TimeDiff(acc[k - 1].ts, row.ts)
             before == IF k = 1 THEN 0 ELSE acc[k - 1].session_id
             sid == before + (IF NewSession(diff) THEN 1 ELSE 0)
         IN  SessionFrameFrom(frame, order,
                Append(acc, [idx |-> order[k], ts |-> row.ts,
                             ms_played |-> row.ms_played, track |-> row.track,
                             session_id |-> sid]))

\* df_sorted with its session_id column; idx is the row's label in df
SessionFrame(frame, order) == SessionFrameFrom(frame, order, <<>>)

\* agg 'count' of one cell: 1 for a value, 0 for a null
CountCell(v) == IF v = Null THEN 0 ELSE 1

RECURSIVE SessionsFrom(_, _, _)
\* groupby('session_id').agg({'ms_played': 'sum',
\* 'master_metadata_track_name': 'count'}): one row per session id
SessionsFrom(sf, k, acc) ==
    IF k > Len(sf) THEN acc
    ELSE IF sf[k].session_id = Len(acc) - 1
    THEN SessionsFrom(sf, k + 1,
            [acc EXCEPT ![Len(acc)] =
                [ms_played |-> @.ms_played + sf[k].ms_played,
                 tracks |-> @.tracks + CountCell(sf[k].track)]])
    ELSE SessionsFrom(sf, k + 1,
            Append(acc, [ms_played |-> sf[k].ms_played,
                         tracks |-> CountCell(sf[k].track)]))

Sessions(sf) == SessionsFrom(sf, 1, <<>>)

SessionStats(sf) ==
    LET ss == Sessions(sf)
    IN  [average_session_minutes |->
            Round2(RDivInt(MeanInt(Column(ss, "ms_played")), MsPerMinute)),
         average_tracks_per_session |-> Round2(MeanInt(Column(ss, "tracks"))),
         total_sessions |-> Len(ss)]

\* 100 * sum(flag) / len(df)
Rate(frame, flag) ==
    Rat(100 * Cardinality({i \in 1..Len(frame) : frame[i][flag]}), Len(frame))

\* hourly_distribution (value_counts().sort_index()).idxmax(): the first
\* maximum in ascending key order
PeakHour(hours) ==
    LET d == ValueCountsDict(hours, NaT)
    IN  Min({h \in DOMAIN d : \A g \in DOMAIN d : d[g] <= d[h]})

\* value_counts().head(10) of a name column: the rankings it may return
TopContent(frame, col) ==
    {head(o, TopN) : o \in ValueCountsOutcomes(Column(frame, col), Null)}

GetComprehensiveStats ==
    /\ pc = "loaded"
    /\ LET hours == [i \in 1..Len(df) |-> hour(df[i].ts)]
           days == [i \in 1..Len(df) |-> day_name(df[i].ts)]
           months == [i \in 1..Len(df) |-> month(df[i].ts)]
           total_ms == SumSeq(Column(df, "ms_played"))
       IN  IF \A i \in 1..Len(df) : df[i].ts = NaT
           THEN \* hourly_distribution is empty: idxmax raises ValueError
                /\ pc' = "failed"
                /\ err' = [type |-> "ValueError", position |-> -1]
                /\ UNCHANGED <<df_sorted, stats>>
           ELSE \E order \in SortValuesTs(df),
                   daily \in ValueCountsOutcomes(days, "NaN"),
                   top_artists \in TopContent(df, "artist"),
                   top_tracks \in TopContent(df, "track"),
                   top_albums \in TopContent(df, "album") :
                /\ pc' = "stats"
                /\ err' = err
                /\ df_sorted' = SessionFrame(df, order)
                /\ stats' =
                    [total_stats |->
                        [total_listening_hours |-> Round2(Rat(total_ms, MsPerHour)),
                         total_listening_minutes |-> Round2(Rat(total_ms, MsPerMinute)),
                         total_tracks_played |-> Len(df),
                         unique_artists |-> nunique(Column(df, "artist"), Null),
                         unique_albums |-> nunique(Column(df, "album"), Null),
                         unique_tracks |-> nunique(Column(df, "track"), Null),
                         average_track_length_seconds |->
                            Round2(RDivInt(MeanInt(Column(df, "ms_played")), 1000))],
                     listening_patterns |->
                        [peak_hour |-> PeakHour(hours),
                         peak_day |-> daily[1][1],
                         hourly_distribution |-> ValueCountsDict(hours, NaT),
                         daily_distribution |-> ValueCountsDict(days, "NaN"),
                         monthly_distribution |-> ValueCountsDict(months, NaT)],
                     behavior_stats |->
                        [skip_rate |-> Round2(Rate(df, "skipped")),
                         offline_rate |-> Round2(Rate(df, "offline")),
                         shuffle_rate |-> Round2(Rate(df, "shuffle"))],
                     session_stats |-> SessionStats(SessionFrame(df, order)),
                     top_content |->
                        [top_artists |-> top_artists,
                         top_tracks |-> top_tracks,
                         top_albums |-> top_albums]]
    /\ UNCHANGED <<raw, df, trends, stdout>>

----------------------------------------------------------------------------
(* analyze_listening_trends *)

RECURSIVE SortDates(_)
\* the group keys of groupby(df['ts'].dt.date): ascending
SortDates(S) ==
    IF S = {} THEN <<>>
    ELSE LET m == CHOOSE a \in S : \A b \in S \ {a} : DateLess(a, b)
         IN  <<m>> \o SortDates(S \ {m})

\* groupby(..., sort=False): the dates in order of first occurrence
GroupKeysFirstSeen(frame) ==
    FirstSeen([i \in 1..Len(frame) |-> date(frame[i].ts)], <<NaT, NaT, NaT>>)

\* groupby drops the rows whose key is missing (dropna=True)
GroupKeys(frame) ==
    SortDates({date(frame[i].ts) : i \in {j \in 1..Len(frame) : frame[j].ts # NaT}})

Group(frame, d) == {i \in 1..Len(frame) : frame[i].ts # NaT /\ date(frame[i].ts) = d}

RECURSIVE SumOver(_, _, _)
SumOver(frame, col, I) ==
    IF I = {} THEN 0
    ELSE LET i == CHOOSE i \in I : TRUE
         IN  frame[i][col] + SumOver(frame, col, I \ {i})

\* agg 'mean' of a boolean column over one group
GroupMean(frame, flag, I) ==
    Rat(Cardinality({i \in I : frame[i][flag]}), Cardinality(I))

\* the daily_stats row of one date
DailyRow(frame, d) ==
    LET I == Group(frame, d)
        ms == SumOver(frame, "ms_played", I)
    IN  [date |-> d,
         ms_played |-> ms,
         \* agg 'count': the non-null track names of the group
         tracks_played |-> Cardinality({i \in I : frame[i].track # Null}),
         skipped |-> GroupMean(frame, "skipped", I),
         offline |-> GroupMean(frame, "offline", I),
         shuffle |-> GroupMean(frame, "shuffle", I),
         hours_played |-> Rat(ms, MsPerHour)]

RECURSIVE DailyStatsFrom(_, _, _)
DailyStatsFrom(frame, keys, acc) ==
    IF Len(acc) = Len(keys) THEN acc
    ELSE DailyStatsFrom(frame, keys, Append(acc, DailyRow(frame, keys[Len(acc) + 1])))

\* daily_stats: one row per date present, ascending
DailyStats(frame) == DailyStatsFrom(frame, GroupKeys(frame), <<>>)

RECURSIVE RollingMeanFrom(_, _, _)
\* rolling(7).mean() row by row: the value entering the trailing window is
\* added to the running sum, the one leaving it is removed; the mean is NaN
\* until the window holds 7 rows
RollingMeanFrom(xs, sum, acc) ==
    IF Len(acc) = Len(xs) THEN acc
    ELSE LET i == Len(acc) + 1
             added == RAdd(sum, xs[i])
             now == IF i > RollingWindow THEN RSub(added, xs[i - RollingWindow])
                    ELSE added
         IN  RollingMeanFrom(xs, now,
                Append(acc, IF i < RollingWindow THEN NaN
                            ELSE RDivInt(now, RollingWindow)))

\* rolling(7, min_periods=1): the mean of the rows the window holds so far
RollingMeanPartial(xs) ==
    [i \in 1..Len(xs) |->
        LET from == IF i > RollingWindow THEN i - RollingWindow + 1 ELSE 1
        IN  RDivInt(RSumSeq(SubSeq(xs, from, i)), i - from + 1)]

RollingMean(xs) == RollingMeanFrom(xs, <<0, 1>>, <<>>)

RECURSIVE AsRatFrom(_, _)
AsRatFrom(xs, acc) ==
    IF Len(acc) = Len(xs) THEN acc
    ELSE AsRatFrom(xs, Append(acc, <<xs[Len(acc) + 1], 1>>))

\* an integer column as floats
AsRat(xs) == AsRatFrom(xs, <<>>)

AnalyzeListeningTrends ==
    /\ pc = "stats"
    /\ LET daily == DailyStats(df)
       IN  trends' =
            [daily_stats |->
                [dates |-> Column(daily, "date"),
                 hours_played |-> Column(daily, "hours_played"),
                 tracks_played |-> Column(daily, "tracks_played"),
                 skip_rate |-> Column(daily, "skipped"),
                 offline_rate |-> Column(daily, "offline"),
                 shuffle_rate |-> Column(daily, "shuffle")],
             rolling_averages |->
                [dates |-> Column(daily, "date"),
                 hours_played |-> RollingMean(Column(daily, "hours_played")),
                 tracks_played |-> RollingMean(AsRat(Column(daily, "tracks_played"))),
                 skip_rate |-> RollingMean(Column(daily, "skipped")),
                 offline_rate |-> RollingMean(Column(daily, "offline")),
                 shuffle_rate |-> RollingMean(Column(daily, "shuffle"))]]
    /\ pc' = "trends"
    /\ UNCHANGED <<raw, df, df_sorted, stats, stdout, err>>

----------------------------------------------------------------------------
(* __main__: print(json.dumps(results)) *)

\* The document is written in one piece once stats and trends exist.
PrintResults ==
    /\ pc = "trends"
    /\ stdout' = Append(stdout, [stats |-> stats, trends |-> trends])
    /\ pc' = "printed"
    /\ UNCHANGED <<raw, df, df_sorted, stats, trends, err>>

\* peak_hour is the index label idxmax returns, a numpy integer, for which
\* json.dumps has no encoder unless the installed numpy/pandas hands back a
\* Python int: the dump may raise TypeError, and then nothing is printed.
PrintRaises ==
    /\ pc = "trends"
    /\ pc' = "failed"
    /\ err' = [type |-> "TypeError", position |-> -1]
    /\ UNCHANGED <<raw, df, df_sorted, stats, trends, stdout>>

Next == Load \/ GetComprehensiveStats \/ AnalyzeListeningTrends
            \/ PrintResults \/ PrintRaises

----------------------------------------------------------------------------
(* Input files *)

HalfHourMs == MsPerHour \div 2

Record(t, ms, track, artist, album, skipped, offline, shuffle) ==
    [ts |-> t, ms_played |-> ms, track |-> track, artist |-> artist,
     album |-> album, skipped |-> skipped, offline |-> offline,
     shuffle |-> shuffle]

\* General family: every file of at most MaxLen records, each record one of
\* two kinds (a half-hour play of track 1; an hour-long skipped play with
\* no track name) at 23:10, 23:40 on January 31, 00:20, 00:30 on February 1,
\* with a null timestamp, or with an unparsable one.
Times == {1390, 1420, 1460, 1470}

Records ==
    {Record(t, HalfHourMs, 1, 1, Null, FALSE, FALSE, TRUE) :
        t \in Times \cup {Null, BadTs}}
    \cup
    {Record(t, 2 * HalfHourMs, Null, 2, 1, TRUE, FALSE, FALSE) :
        t \in Times \cup {Null, BadTs}}

SeqsUpTo(S, n) == UNION {[1..m -> S] : m \in 0..n}

GeneralInputs == SeqsUpTo(Records, MaxLen)

\* Ranking family: names 1..k once each in one of the three name columns,
\* then up to MaxTail more records whose name is null, 1, or a new one.
NameColumns == {"artist", "track", "album"}

NameRecord(i, col, name) ==
    Record(1390 + i, HalfHourMs,
           IF col = "track" THEN name ELSE Null,
           IF col = "artist" THEN name ELSE Null,
           IF col = "album" THEN name ELSE Null,
           FALSE, FALSE, FALSE)

RankingInputs ==
    {[i \in 1..(k + Len(tail)) |->
        NameRecord(i, col, IF i <= k THEN i ELSE tail[i - k])] :
        k \in 0..MaxDistinct,
        tail \in SeqsUpTo({Null, 1, MaxDistinct + 1}, MaxTail),
        col \in NameColumns}

\* Trend family: n days with one play each at 10:00; from day `gap` on the
\* dates are three days later (dates without plays in between); the plays
\* last 1, 2, 3, ... hours or a varying number of half hours; with `extra`
\* there is a second, skipped, play without a track name on day `gap` (on
\* day 1 without a gap); the file lists the days forwards or backwards.
DayMinute(i, gap) ==
    (IF gap > 0 /\ i >= gap THEN i + 2 ELSE i - 1) * MinutesPerDay + 600

DayMs(i, ramp) ==
    IF ramp THEN i * MsPerHour ELSE (1 + ((i * i) % 5)) * HalfHourMs

TrendRecords(n, gap, ramp, extra) ==
    [i \in 1..n |-> Record(DayMinute(i, gap), DayMs(i, ramp), 1, 1, 1,
                           FALSE, i % 2 = 0, FALSE)]
    \o (IF extra
        THEN <<Record(DayMinute(IF gap > 0 THEN gap ELSE 1, gap) + 100, HalfHourMs, Null, Null, Null,
                      TRUE, FALSE, FALSE)>>
        ELSE <<>>)

Reverse(s) == [i \in 1..Len(s) |-> s[Len(s) + 1 - i]]

TrendInputs ==
    {IF backwards THEN Reverse(TrendRecords(n, gap, ramp, extra))
                  ELSE TrendRecords(n, gap, ramp, extra) :
        n \in 0..MaxDays, gap \in 0..MaxDays, ramp \in BOOLEAN,
        extra \in BOOLEAN, backwards \in BOOLEAN}

InitWith(inputs) ==
    /\ raw \in inputs
    /\ pc = "start"
    /\ df = <<>>
    /\ df_sorted = <<>>
    /\ stats = None
    /\ trends = None
    /\ stdout = <<>>
    /\ err = NoError

Init == InitWith(GeneralInputs)
InitRanking == InitWith(RankingInputs)
InitTrend == InitWith(TrendInputs)

Spec == Init /\ [][Next]_vars
SpecRanking == InitRanking /\ [][Next]_vars
SpecTrend == InitTrend /\ [][Next]_vars

----------------------------------------------------------------------------
(* Properties *)

StatsDone == pc = "stats"
TrendsDone == pc = "trends"

Adjacent(sf) == {k \in 1..(Len(sf) - 1) : sf[k].ts # NaT /\ sf[k + 1].ts # NaT}

\* C1: after get_comprehensive_stats has sorted by timestamp and assigned
\* session ids, the rows are in ascending timestamp order; two adjacent
\* events with the same session id are at most 30 minutes apart and two
\* adjacent events with different session ids are more than 30 minutes
\* apart; events at t, t+40min, t+50min form exactly the 2 sessions
\* {event1} and {event2, event3}.
C1_SessionGapRule ==
    StatsDone =>
        /\ \A k \in Adjacent(df_sorted) :
            /\ df_sorted[k].ts <= df_sorted[k + 1].ts
            /\ df_sorted[k].session_id = df_sorted[k + 1].session_id
                => df_sorted[k + 1].ts - df_sorted[k].ts <= 30
            /\ df_sorted[k].session_id # df_sorted[k + 1].session_id
                => df_sorted[k + 1].ts - df_sorted[k].ts > 30
        /\ df_sorted[1].session_id = 0
        /\ ( /\ Len(df_sorted) = 3
             /\ Adjacent(df_sorted) = {1, 2}
             /\ df_sorted[2].ts = df_sorted[1].ts + 40
             /\ df_sorted[3].ts = df_sorted[1].ts + 50 )
            => /\ Column(df_sorted, "session_id") = <<0, 1, 1>>
               /\ stats.session_stats.total_sessions = 2

\* a gap of exactly 30 minutes kept in one session, then a gap of 40
\* minutes starting the next
C1_Witness ==
    /\ StatsDone
    /\ Len(df_sorted) = 3
    /\ Column(df_sorted, "ts") = <<1390, 1420, 1460>>
    /\ Column(df_sorted, "session_id") = <<0, 0, 1>>

Permute(frame, p) == [i \in 1..Len(frame) |-> frame[p[i]]]

Perms(n) == {p \in [1..n -> 1..n] : \A i, j \in 1..n : p[i] = p[j] => i = j}

Boundaries(sf) == [k \in 1..Len(sf) |-> <<sf[k].ts, sf[k].session_id>>]

\* C2: the session boundaries and total_sessions, average_session_minutes
\* and average_tracks_per_session are the same for every reordering of the
\* input records, whatever order the sort leaves equal timestamps in.
C2_SessionsIgnoreInputOrder ==
    StatsDone =>
        \A p \in Perms(Len(df)) :
            \A order \in SortValuesTs(Permute(df, p)) :
                LET sf == SessionFrame(Permute(df, p), order)
                IN  /\ Boundaries(sf) = Boundaries(df_sorted)
                    /\ SessionStats(sf) = stats.session_stats

\* a file that is not in timestamp order and holds two plays with the same
\* timestamp and different lengths
C2_Witness ==
    /\ StatsDone
    /\ Len(df) = 3
    /\ df[1].ts = 1460
    /\ df[2].ts = 1390
    /\ df[3].ts = 1390
    /\ df[2].ms_played # df[3].ms_played
    /\ stats.session_stats.total_sessions = 2

SessionSize(sf, sid) == Cardinality({k \in 1..Len(sf) : sf[k].session_id = sid})

\* C3: the per-session track count behind average_tracks_per_session is
\* the number of events of the session, null track names included; the
\* counts sum to total_tracks_played; a single-event dataset has
\* total_sessions = 1 and average_tracks_per_session = 1.
C3_TracksPerSessionCountsEvents ==
    StatsDone =>
        LET ss == Sessions(df_sorted)
        IN  /\ \A s \in 1..Len(ss) : ss[s].tracks = SessionSize(df_sorted, s - 1)
            /\ SumSeq(Column(ss, "tracks")) = stats.total_stats.total_tracks_played
            /\ Len(df) = 1 =>
                /\ stats.session_stats.total_sessions = 1
                /\ stats.session_stats.average_tracks_per_session = <<1, 1>>

\* C4: for every file the loader accepts, total_tracks_played is the number
\* of input records and the hourly, daily and monthly distributions each
\* sum to it.
C4_DistributionsSumToTotal ==
    StatsDone =>
        /\ stats.total_stats.total_tracks_played = Len(raw)
        /\ DictSum(stats.listening_patterns.hourly_distribution) = Len(raw)
        /\ DictSum(stats.listening_patterns.daily_distribution) = Len(raw)
        /\ DictSum(stats.listening_patterns.monthly_distribution) = Len(raw)

Series == {"hours_played", "tracks_played", "skip_rate", "offline_rate", "shuffle_rate"}

\* a daily value as a fraction (tracks_played is an integer column)
DailyValue(name, i) ==
    IF name = "tracks_played" THEN <<trends.daily_stats[name][i], 1>>
    ELSE trends.daily_stats[name][i]

\* the mean of the daily values at buckets from..to
BucketMean(name, from, to) ==
    RDivInt(RSumSeq([k \in 1..(to - from + 1) |-> DailyValue(name, from + k - 1)]),
            to - from + 1)

\* C5: every rolling_averages series is as long as the daily series; its
\* first 6 entries are NaN and every later entry is the mean of the 7 daily
\* values ending at its bucket, counted by bucket position whatever dates
\* are missing; daily hours 1..10 give 4 at index 6 and 7 at index 9.
C5_RollingMeanOfSevenBuckets ==
    TrendsDone =>
        /\ \A name \in Series :
            LET daily == trends.daily_stats[name]
                rolling == trends.rolling_averages[name]
            IN  /\ Len(rolling) = Len(daily)
                /\ \A i \in 1..Len(rolling) :
                    IF i <= 6 THEN rolling[i] = NaN
                    ELSE rolling[i] = BucketMean(name, i - 6, i)
        /\ trends.rolling_averages.dates = trends.daily_stats.dates
        /\ trends.daily_stats.hours_played = [i \in 1..10 |-> <<i, 1>>]
            => /\ trends.rolling_averages.hours_played[7] = <<4, 1>>
               /\ trends.rolling_averages.hours_played[10] = <<7, 1>>

\* ten buckets of 1..10 hours with the dates after the third bucket three
\* days later
C5_Witness ==
    /\ TrendsDone
    /\ trends.daily_stats.hours_played = [i \in 1..10 |-> <<i, 1>>]
    /\ trends.daily_stats.dates[3] = <<2024, 2, 2>>
    /\ trends.daily_stats.dates[4] = <<2024, 2, 6>>
    /\ trends.rolling_averages.hours_played[6] = NaN
    /\ trends.rolling_averages.hours_played[7] = <<4, 1>>

\* C6: on an empty dataset the pipeline does not raise: it completes with
\* total_tracks_played = 0 and total_sessions = 0.
C6_EmptyDatasetCompletes ==
    raw = <<>> =>
        /\ pc # "failed"
        /\ err = NoError
        /\ stats # None =>
            /\ stats.total_stats.total_tracks_played = 0
            /\ stats.session_stats.total_sessions = 0

NameColumnOf(ranking_name) ==
    CASE ranking_name = "top_artists" -> "artist"
      [] ranking_name = "top_tracks" -> "track"
      [] ranking_name = "top_albums" -> "album"

Rankings == {"top_artists", "top_tracks", "top_albums"}

\* the position of the first record carrying name x
FirstOccurrence(col, x) == Min({i \in 1..Len(col) : col[i] = x})

RankingSound(ranking, col) ==
    LET names == Range(col) \ {Null}
        n == Len(ranking)
        included == {ranking[i][1] : i \in 1..n}
    IN  /\ n = (IF Cardinality(names) < 10 THEN Cardinality(names) ELSE 10)
        /\ included \subseteq names
        /\ Cardinality(included) = n
        /\ \A i \in 1..n : ranking[i][2] = Count(col, ranking[i][1])
        /\ \A i \in 1..(n - 1) : ranking[i][2] >= ranking[i + 1][2]
        /\ \A x \in names \ included : \A i \in 1..n : Count(col, x) <= ranking[i][2]

TiesInFirstOccurrenceOrder(ranking, col) ==
    \A i \in 1..(Len(ranking) - 1) :
        ranking[i][2] = ranking[i + 1][2]
            => FirstOccurrence(col, ranking[i][1]) < FirstOccurrence(col, ranking[i + 1][1])

\* C7: each of the artist, track and album rankings holds
\* min(10, distinct non-null values) entries, no null key, each with the
\* number of events carrying the value, in non-increasing count order with
\* ties in order of first occurrence in the input, and no excluded value
\* has a greater count than an included one; 11 distinct artists played
\* once each give 10 entries of count 1.
C7_TopTenRanking ==
    StatsDone =>
        \A r \in Rankings :
            LET ranking == stats.top_content[r]
                col == Column(df, NameColumnOf(r))
            IN  /\ RankingSound(ranking, col)
                /\ TiesInFirstOccurrenceOrder(ranking, col)

\* C8: a record with an unparsable timestamp makes the run fail in the
\* loader with an error naming the first such record's position; neither
\* statistics nor trends are computed and nothing is printed; output exists
\* only after load, stats and trends have all completed.
C8_BadTimestampAbortsRun ==
    /\ (BadPositions(raw) # {} /\ pc # "start") =>
        /\ pc = "failed"
        /\ err = [type |-> "ValueError", position |-> Min(BadPositions(raw)) - 1]
        /\ raw[err.position + 1].ts = BadTs
        /\ df = <<>>
        /\ stats = None
        /\ trends = None
        /\ stdout = <<>>
    /\ stdout # <<>> =>
        /\ pc = "printed"
        /\ BadPositions(raw) = {}
        /\ stats # None
        /\ trends # None
        /\ stdout = <<[stats |-> stats, trends |-> trends]>>

\* the second of three records cannot be parsed
C8_Witness ==
    /\ pc = "failed"
    /\ Len(raw) = 3
    /\ BadPositions(raw) = {2, 3}
    /\ err.position = 1
    /\ stdout = <<>>

EventDates == {date(df[i].ts) : i \in {j \in 1..Len(df) : df[j].ts # NaT}}

\* C9: the daily 'dates' are strictly ascending and are exactly the
\* calendar dates on which events occur, and all six daily series have one
\* length.
C9_DatesAscendingAndExact ==
    TrendsDone =>
        LET dates == trends.daily_stats.dates
        IN  /\ \A i \in 1..(Len(dates) - 1) : DateLess(dates[i], dates[i + 1])
            /\ Range(dates) = EventDates
            /\ \A name \in Series : Len(trends.daily_stats[name]) = Len(dates)

\* a file listing its days backwards, with dates missing in between
C9_Witness ==
    /\ TrendsDone
    /\ Len(df) = 4
    /\ df[2].ts > df[3].ts
    /\ df[3].ts > df[4].ts
    /\ trends.daily_stats.dates = <<<<2024, 1, 31>>, <<2024, 2, 4>>, <<2024, 2, 5>>>>

\* C10: tracks_played of every daily bucket is the number of events on
\* that date, null track names included, so the daily values sum to
\* total_tracks_played.
C10_DailyTracksCountEvents ==
    TrendsDone =>
        /\ \A k \in 1..Len(trends.daily_stats.dates) :
            trends.daily_stats.tracks_played[k]
                = Cardinality(Group(df, trends.daily_stats.dates[k]))
        /\ SumSeq(trends.daily_stats.tracks_played)
                = stats.total_stats.total_tracks_played

====
